---- MODULE Spec2Model ----
(***************************************************************************)
(* A model of the image encryption tool (src/image_encryptor.py) and of    *)
(* the two ways its callers drive it (src/cli.py: one process and one      *)
(* ImageEncryptor per command; src/examples.py: one ImageEncryptor for a   *)
(* whole session).                                                         *)
(*                                                                         *)
(* An image is a record [h, w, px]: px maps a position <<row, col>>        *)
(* (0-based, as numpy indexes it) to a pixel <<R, G, B>> (numpy channel c  *)
(* is element c+1 of the tuple).  The codec (PIL) is taken to be lossless  *)
(* on 8-bit RGB arrays (a PNG file): a file holds exactly the array that   *)
(* save_image stored.                                                      *)
(*                                                                         *)
(* Python's `random` module is one generator per process.  Its state is    *)
(* modelled by where it was last seeded from (origin) and by the lengths   *)
(* of the lists shuffled since (hist): the Mersenne Twister is a           *)
(* deterministic function of exactly that.  What it returns in a state is  *)
(* not computed: the first shuffle in a state chooses any outcome, and     *)
(* `tape` remembers it, so that every later shuffle in the same state      *)
(* returns the same outcome.                                               *)
(***************************************************************************)
EXTENDS Integers, Sequences, FiniteSets, TLC

VARIABLES
    files,    \* the file system: path -> image, for the paths that exist
    nwrites,  \* path -> number of times save_image has written the path
    procNo,   \* the number of the running Python process
    rng,      \* the state of the process's `random` module: [origin, hist]
    tape,     \* generator state -> the draws the generator returns there
    insts,    \* the ImageEncryptor objects constructed so far: [proc, seed]
    calls     \* the encrypt_image / decrypt_image calls made so far

vars == <<files, nwrites, procNo, rng, tape, insts, calls>>

(***************************************************************************)
(* Bounds of the model.                                                    *)
(***************************************************************************)
MaxCalls == 2
MaxInsts == 2
MaxProcs == 2

Paths == {"in", "enc", "dec"}

\* An absent seed (Python's None) is <<>>, the integer seed s is <<s>>.
None == <<>>

\* Placeholder for "no array": the input of a call whose load failed, the
\* output of a call that raised.
NoImage == [h |-> 0, w |-> 0, px |-> <<>>]

(***************************************************************************)
(* Images.                                                                 *)
(***************************************************************************)
Positions(h, w) == (0 .. h - 1) \X (0 .. w - 1)

\* np.full((h, w, 3), v): test_tool.py's test image.
Uniform(h, w, v) ==
    [h |-> h, w |-> w, px |-> [p \in Positions(h, w) |-> <<v, v, v>>]]

\* An image whose pixels and channels are pairwise different:
\* (10,20,30), (40,50,60), ... in row-major order.
Labelled(h, w) ==
    [h |-> h, w |-> w,
     px |-> [p \in Positions(h, w) |->
               LET k == p[1] * w + p[2]
               IN  <<10 + 30 * k, 20 + 30 * k, 30 + 30 * k>>]]

\* Apply f to every sample of the array (a numpy whole-array operation).
MapSamples(img, f(_)) ==
    [img EXCEPT !.px = [p \in DOMAIN img.px |->
                           [c \in 1 .. 3 |-> f(img.px[p][c])]]]

\* Mutant: the value is cast to uint8 without np.clip and wraps modulo 256.
Clip_wrap(v) == v % 256

\* np.clip(x, 0, 255)
Clip(v) == IF v < 0 THEN 0 ELSE IF v > 255 THEN 255 ELSE v

(***************************************************************************)
(* Integer helpers: Python's ^, <<, >> and // on the int32 array           *)
(* (image_array.copy().astype(np.int32)).  The array keeps its width in    *)
(* +, -, * and <<: a result outside int32 wraps modulo 2^32.  The left     *)
(* operand is always a sample, 0..255; the right one is any int32.         *)
(***************************************************************************)
MaxInt32 == 2147483647
MinInt32 == (0 - MaxInt32) - 1

\* a + b in int32, 0 <= a <= 255
Int32Add(a, b) ==
    IF b > MaxInt32 - a THEN (a + MinInt32) + (b + MinInt32) ELSE a + b

\* a - b in int32, 0 <= a <= 255
Int32Sub(a, b) ==
    IF b < a - MaxInt32 THEN (a + MinInt32) - (b - MinInt32) ELSE a - b

\* a * b in int32, 0 <= a <= 255: the product of a and the two 16-bit
\* halves of b's bit pattern, the carry dropped at bit 32.
Int32Mul(a, b) ==
    LET bh == IF b >= 0 THEN b \div 65536 ELSE ((b - MinInt32) \div 65536) + 32768
        bl == IF b >= 0 THEN b % 65536 ELSE (b - MinInt32) % 65536
        lo == a * bl
        hi == ((a * bh) + (lo \div 65536)) % 65536
    IN  IF hi >= 32768 THEN ((hi - 65536) * 65536) + (lo % 65536)
        ELSE (hi * 65536) + (lo % 65536)

RECURSIVE BitXor(_, _)
BitXor(a, b) ==
    IF a = 0 THEN b
    ELSE IF b = 0 THEN a
    ELSE 2 * BitXor(a \div 2, b \div 2) + (((a % 2) + (b % 2)) % 2)

RECURSIVE Pow2(_)
Pow2(n) == IF n = 0 THEN 1 ELSE 2 * Pow2(n - 1)

\* a << n and a >> n in int32, 0 <= a <= 255, 0 <= n <= 30
Int32Shl(a, n) == Int32Mul(a, Pow2(n))
Int32Shr(a, n) == a \div Pow2(n)

\* a // b, rounding towards minus infinity, b # 0
FloorDiv(a, b) == IF b > 0 THEN a \div b ELSE (0 - a) \div (0 - b)

(***************************************************************************)
(* The result of a transform or of a whole call: the array it returned,    *)
(* or the fact that it raised.                                             *)
(***************************************************************************)
Ok(img) == [ok |-> TRUE, img |-> img]
Raised == [ok |-> FALSE, img |-> NoImage]

(***************************************************************************)
(* Mathematical operations.                                                *)
(***************************************************************************)
RECURSIVE BitOr(_, _)
BitOr(a, b) ==
    IF a = 0 THEN b
    ELSE IF b = 0 THEN a
    ELSE 2 * BitOr(a \div 2, b \div 2) + (IF a % 2 = 1 \/ b % 2 = 1 THEN 1 ELSE 0)

\* Mutant: | written for ^.
xor_encrypt_or(img, key) ==
    LET k == key % 256
    IN  MapSamples(img, LAMBDA v : Clip(BitOr(v, k)))

xor_encrypt(img, key) ==
    LET k == key % 256
    IN  MapSamples(img, LAMBDA v : Clip(BitXor(v, k)))

\* Mutant: subtract adds.
arithmetic_encrypt_plus(img, operation, value) ==
    IF operation = "add" \/ operation = "subtract"
      THEN Ok(MapSamples(img, LAMBDA v : Clip(v + value)))
    ELSE IF operation = "multiply"
      THEN Ok(MapSamples(img, LAMBDA v : Clip(v * value)))
    ELSE IF operation = "divide" /\ value # 0
      THEN Ok(MapSamples(img, LAMBDA v : Clip(FloorDiv(v, value))))
    ELSE Raised

arithmetic_encrypt(img, operation, value) ==
    IF operation = "add"
      THEN Ok(MapSamples(img, LAMBDA v : Clip(Int32Add(v, value))))
    ELSE IF operation = "subtract"
      THEN Ok(MapSamples(img, LAMBDA v : Clip(Int32Sub(v, value))))
    ELSE IF operation = "multiply"
      THEN Ok(MapSamples(img, LAMBDA v : Clip(Int32Mul(v, value))))
    ELSE IF operation = "divide" /\ value # 0
      THEN Ok(MapSamples(img, LAMBDA v : Clip(FloorDiv(v, value))))
    ELSE Raised

\* Mutant: << and >> exchanged.
bit_shift_encrypt_exchanged(img, shift_amount, direction) ==
    IF direction = "left"
      THEN Ok(MapSamples(img, LAMBDA v : Clip(v \div Pow2(shift_amount))))
    ELSE IF direction = "right"
      THEN Ok(MapSamples(img, LAMBDA v : Clip(v * Pow2(shift_amount))))
    ELSE Raised

bit_shift_encrypt(img, shift_amount, direction) ==
    IF direction = "left"
      THEN Ok(MapSamples(img, LAMBDA v : Clip(Int32Shl(v, shift_amount))))
    ELSE IF direction = "right"
      THEN Ok(MapSamples(img, LAMBDA v : Clip(Int32Shr(v, shift_amount))))
    ELSE Raised

\* Mutant: no temp, G is read after R was overwritten.
color_channel_shift_no_temp(img) ==
    [img EXCEPT !.px = [p \in DOMAIN img.px |->
                           <<img.px[p][3], img.px[p][3], img.px[p][2]>>]]

\* temp = R; R = B; B = G; G = temp
color_channel_shift(img) ==
    [img EXCEPT !.px = [p \in DOMAIN img.px |->
                           <<img.px[p][3], img.px[p][1], img.px[p][2]>>]]

(***************************************************************************)
(* Pixel swapping.                                                         *)
(***************************************************************************)
\* range(0, stop, step) as a sequence, step > 0
RECURSIVE RangeFrom(_, _, _)
RangeFrom(start, stop, step) ==
    IF start >= stop THEN <<>>
    ELSE <<start>> \o RangeFrom(start + step, stop, step)

Range(stop, step) == RangeFrom(0, stop, step)

\* Mutant: temp is a view, not a copy, and follows the first assignment.
SwapPixels_no_copy(px, p1, p2) ==
    [q \in DOMAIN px |-> IF q = p1 \/ q = p2 THEN px[p2] ELSE px[q]]

\* temp = a[p1].copy(); a[p1] = a[p2]; a[p2] = temp
SwapPixels(px, p1, p2) ==
    [q \in DOMAIN px |-> IF q = p1 THEN px[p2]
                         ELSE IF q = p2 THEN px[p1]
                         ELSE px[q]]

\* Mutant: a[p1] = a[p2] without the write back, the pixel at p1 is lost.
RECURSIVE ApplySwaps_overwrite(_, _)
ApplySwaps_overwrite(px, pairs) ==
    IF pairs = <<>> THEN px
    ELSE ApplySwaps_overwrite([px EXCEPT ![pairs[1][1]] = px[pairs[1][2]]],
                              Tail(pairs))

\* The swaps of `pairs` applied to px one after the other, first to last.
RECURSIVE ApplySwaps(_, _)
ApplySwaps(px, pairs) ==
    IF pairs = <<>> THEN px
    ELSE ApplySwaps(SwapPixels(px, pairs[1][1], pairs[1][2]), Tail(pairs))

\* The position pairs swap_adjacent_pixels visits, in loop order.
AdjacentPairs(h, w) ==
    LET cols == Range(w - 1, 2)
        row(i) == [k \in 1 .. Len(cols) |-> << <<i, cols[k]>>, <<i, cols[k] + 1>> >>]
        RECURSIVE rows(_)
        rows(i) == IF i >= h THEN <<>> ELSE row(i) \o rows(i + 1)
    IN  rows(0)

swap_adjacent_pixels(img) ==
    [img EXCEPT !.px = ApplySwaps(img.px, AdjacentPairs(img.h, img.w))]

\* All positions in row-major order.
get_pixel_positions(height, width) ==
    [k \in 1 .. height * width |-> <<(k - 1) \div width, (k - 1) % width>>]

(***************************************************************************)
(* random.shuffle(x): for i in reversed(range(1, len(x))):                 *)
(*                        j = randbelow(i + 1); x[i], x[j] = x[j], x[i]    *)
(* draws holds the values randbelow returned, in the order of the calls:   *)
(* draws[k] is the j drawn for i = len(x) - k.  A list of fewer than two   *)
(* elements asks the generator for nothing.                                *)
(***************************************************************************)
SwapItems(x, i, j) ==
    [k \in 1 .. Len(x) |-> IF k = i + 1 THEN x[j + 1]
                           ELSE IF k = j + 1 THEN x[i + 1]
                           ELSE x[k]]

RECURSIVE ShuffleFrom(_, _, _)
ShuffleFrom(x, draws, k) ==
    IF k > Len(draws) THEN x
    ELSE ShuffleFrom(SwapItems(x, Len(x) - k, draws[k]), draws, k + 1)

Shuffle(x, draws) == ShuffleFrom(x, draws, 1)

\* Every sequence of values randbelow can return while a list of n
\* elements is shuffled.
RECURSIVE DrawsOf(_)
DrawsOf(n) ==
    IF n <= 1 THEN {<<>>}
    ELSE {<<j>> \o d : j \in 0 .. n - 1, d \in DrawsOf(n - 1)}

\* int(x / d) for d > 0: Python's int() truncates towards zero.
TruncDiv(x, d) == IF x >= 0 THEN x \div d ELSE 0 - ((0 - x) \div d)

Min(a, b) == IF a <= b THEN a ELSE b

\* Mutant: the division by 2 is left out, one swap per pixel to move.
NumSwaps_no_half(n, swap_percentage) == TruncDiv(n * swap_percentage, 100)

\* swap_percentage is held in hundredths (50 is 0.5); the values the model
\* uses are exact binary fractions, so the float product is exact.
NumSwaps(n, swap_percentage) == TruncDiv(n * swap_percentage, 200)

\* Mutant: the loop advances by 1, so each position but the first is the
\* second of one pair and the first of the next.
RandomPairs_overlapping(positions, num_swaps) ==
    LET idx  == Range(Min(num_swaps * 2, Len(positions)), 1)
        kept == SelectSeq(idx, LAMBDA i : i + 1 < Len(positions))
    IN  [k \in 1 .. Len(kept) |-> <<positions[kept[k] + 1], positions[kept[k] + 2]>>]

\* The position pairs swap_random_pixels swaps, in loop order: positions is
\* the shuffled list, and "if i + 1 < len(positions)" drops a last lone one.
RandomPairs(positions, num_swaps) ==
    LET idx  == Range(Min(num_swaps * 2, Len(positions)), 2)
        kept == SelectSeq(idx, LAMBDA i : i + 1 < Len(positions))
    IN  [k \in 1 .. Len(kept) |-> <<positions[kept[k] + 1], positions[kept[k] + 2]>>]

swap_random_pixels(img, swap_percentage, draws) ==
    LET positions == get_pixel_positions(img.h, img.w)
        num_swaps == NumSwaps(Len(positions), swap_percentage)
        shuffled  == Shuffle(positions, draws)
    IN  [img EXCEPT !.px = ApplySwaps(img.px, RandomPairs(shuffled, num_swaps))]

\* The blocks swap_block_pixels visits, in loop order, block_size >= 1:
\* [i, j] is the block's top left corner, bh x bw its size (edge blocks
\* are cut at the image border).
Blocks(h, w, block_size) ==
    LET is == Range(h, block_size)
        js == Range(w, block_size)
    IN  [k \in 1 .. Len(is) * Len(js) |->
           LET i == is[((k - 1) \div Len(js)) + 1]
               j == js[((k - 1) % Len(js)) + 1]
           IN  [i |-> i, j |-> j,
                bh |-> Min(i + block_size, h) - i,
                bw |-> Min(j + block_size, w) - j]]

\* Mutant: the loop stops one pair early, the last target stays zero.
RECURSIVE FillBlock_drop_last(_, _, _, _, _)
FillBlock_drop_last(new_block, block, block_positions, shuffled_positions, k) ==
    IF k >= Len(block_positions) THEN new_block
    ELSE FillBlock_drop_last(
             [new_block EXCEPT ![shuffled_positions[k]] = block[block_positions[k]]],
             block, block_positions, shuffled_positions, k + 1)

\* new_block = np.zeros_like(block), then for each (original_pos, new_pos)
\* of zip(block_positions, shuffled_positions):
\*     new_block[new_pos] = block[original_pos]
RECURSIVE FillBlock(_, _, _, _, _)
FillBlock(new_block, block, block_positions, shuffled_positions, k) ==
    IF k > Len(block_positions) THEN new_block
    ELSE FillBlock([new_block EXCEPT ![shuffled_positions[k]] = block[block_positions[k]]],
                   block, block_positions, shuffled_positions, k + 1)

\* One block of swap_block_pixels: the array with block b shuffled by draws.
ShuffleBlock(px, b, draws) ==
    LET block == [q \in Positions(b.bh, b.bw) |-> px[<<b.i + q[1], b.j + q[2]>>]]
        block_positions == get_pixel_positions(b.bh, b.bw)
        shuffled_positions == Shuffle(block_positions, draws)
        zeros == [q \in Positions(b.bh, b.bw) |-> <<0, 0, 0>>]
        new_block == FillBlock(zeros, block, block_positions, shuffled_positions, 1)
    IN  [q \in DOMAIN px |->
           IF /\ b.i <= q[1] /\ q[1] < b.i + b.bh
              /\ b.j <= q[2] /\ q[2] < b.j + b.bw
           THEN new_block[<<q[1] - b.i, q[2] - b.j>>]
           ELSE px[q]]

RECURSIVE ShuffleBlocks(_, _, _, _)
ShuffleBlocks(px, blocks, draws, k) ==
    IF k > Len(blocks) THEN px
    ELSE ShuffleBlocks(ShuffleBlock(px, blocks[k], draws[k]), blocks, draws, k + 1)

\* draws[k] holds the draws of the shuffle of the k-th block.  A block
\* size of 0 makes range() raise; a negative one makes both loops empty.
swap_block_pixels(img, block_size, draws) ==
    IF block_size = 0 THEN Raised
    ELSE IF block_size < 0 THEN Ok(img)
    ELSE Ok([img EXCEPT !.px =
                ShuffleBlocks(img.px, Blocks(img.h, img.w, block_size), draws, 1)])

(***************************************************************************)
(* The generator of the `random` module.                                   *)
(***************************************************************************)
\* The state of a process that has just started: seeded from the operating
\* system's entropy, differently in every process.
FreshRng(proc) == [origin |-> <<"entropy", proc>>, hist |-> <<>>]

\* random.seed(s)
SeededRng(s) == [origin |-> <<"seed", s>>, hist |-> <<>>]

\* if seed: -- None and 0 are both false
Truthy(seed) == seed # None /\ seed[1] # 0

\* The history after the first k shuffles of lists of lengths lens; a list
\* shorter than 2 draws nothing and leaves the generator where it was.
HistAfter(hist, lens, k) ==
    hist \o SelectSeq(SubSeq(lens, 1, k), LAMBDA n : n >= 2)

\* The generator state in which the k-th of these shuffles ends.
StateAfter(g, lens, k) == [g EXCEPT !.hist = HistAfter(g.hist, lens, k)]

\* Every outcome of shuffling lists of the lengths lens, one after another.
RECURSIVE DrawSeqs(_)
DrawSeqs(lens) ==
    IF lens = <<>> THEN {<<>>}
    ELSE {<<d>> \o ds : d \in DrawsOf(Head(lens)), ds \in DrawSeqs(Tail(lens))}

\* draws is what the generator yields from state g on: a shuffle whose end
\* state was visited before repeats what it drew then.
Replays(g, lens, draws) ==
    \A k \in 1 .. Len(lens) :
        (lens[k] >= 2 /\ StateAfter(g, lens, k) \in DOMAIN tape)
            => draws[k] = tape[StateAfter(g, lens, k)]

Recorded(g, lens, draws) ==
    LET new == {StateAfter(g, lens, k) : k \in {k \in 1 .. Len(lens) : lens[k] >= 2}}
    IN  [st \in DOMAIN tape \cup new |->
           IF st \in DOMAIN tape THEN tape[st]
           ELSE draws[CHOOSE k \in 1 .. Len(lens) :
                          lens[k] >= 2 /\ StateAfter(g, lens, k) = st]]

(***************************************************************************)
(* encrypt_image and decrypt_image.  P holds the keyword arguments.        *)
(***************************************************************************)
\* The lengths of the lists a call shuffles, in order.
ShuffleLens(method, P, img) ==
    IF method = "random_swap" THEN <<img.h * img.w>>
    ELSE IF method = "block_swap" /\ P.block_size >= 1
      THEN LET bs == Blocks(img.h, img.w, P.block_size)
           IN  [k \in 1 .. Len(bs) |-> bs[k].bh * bs[k].bw]
    ELSE <<>>

EncryptTransform(img, method, P, draws) ==
    IF method = "xor" THEN Ok(xor_encrypt(img, P.key))
    ELSE IF method = "arithmetic"
      THEN arithmetic_encrypt(img, P.operation, P.value)
    ELSE IF method = "bit_shift"
      THEN bit_shift_encrypt(img, P.shift_amount, P.direction)
    ELSE IF method = "adjacent_swap" THEN Ok(swap_adjacent_pixels(img))
    ELSE IF method = "random_swap"
      THEN Ok(swap_random_pixels(img, P.swap_percentage, draws[1]))
    ELSE IF method = "block_swap"
      THEN swap_block_pixels(img, P.block_size, draws)
    ELSE IF method = "channel_shift" THEN Ok(color_channel_shift(img))
    ELSE Raised

\* Mutant: the final raise is missing, an unknown method returns the array
\* as it was loaded.
DecryptTransform_no_raise(img, method, P, draws) ==
    IF method = "xor" THEN Ok(xor_encrypt(img, P.key))
    ELSE IF method = "arithmetic"
      THEN IF P.operation = "add"
             THEN arithmetic_encrypt(img, "subtract", P.value)
           ELSE IF P.operation = "subtract"
             THEN arithmetic_encrypt(img, "add", P.value)
           ELSE IF P.operation = "multiply" /\ P.value # 0
             THEN arithmetic_encrypt(img, "divide", P.value)
           ELSE IF P.operation = "divide"
             THEN arithmetic_encrypt(img, "multiply", P.value)
           ELSE Raised
    ELSE IF method = "bit_shift"
      THEN LET reverse_direction == IF P.direction = "left" THEN "right" ELSE "left"
           IN  bit_shift_encrypt(img, P.shift_amount, reverse_direction)
    ELSE IF method = "adjacent_swap" THEN Ok(swap_adjacent_pixels(img))
    ELSE IF method = "channel_shift"
      THEN Ok(color_channel_shift(color_channel_shift(img)))
    ELSE IF method = "random_swap"
      THEN Ok(swap_random_pixels(img, P.swap_percentage, draws[1]))
    ELSE IF method = "block_swap"
      THEN swap_block_pixels(img, P.block_size, draws)
    ELSE Ok(img)

DecryptTransform(img, method, P, draws) ==
    IF method = "xor" THEN Ok(xor_encrypt(img, P.key))
    ELSE IF method = "arithmetic"
      THEN IF P.operation = "add"
             THEN arithmetic_encrypt(img, "subtract", P.value)
           ELSE IF P.operation = "subtract"
             THEN arithmetic_encrypt(img, "add", P.value)
           ELSE IF P.operation = "multiply" /\ P.value # 0
             THEN arithmetic_encrypt(img, "divide", P.value)
           ELSE IF P.operation = "divide"
             THEN arithmetic_encrypt(img, "multiply", P.value)
           ELSE Raised
    ELSE IF method = "bit_shift"
      THEN LET reverse_direction == IF P.direction = "left" THEN "right" ELSE "left"
           IN  bit_shift_encrypt(img, P.shift_amount, reverse_direction)
    ELSE IF method = "adjacent_swap" THEN Ok(swap_adjacent_pixels(img))
    ELSE IF method = "channel_shift"
      THEN Ok(color_channel_shift(color_channel_shift(img)))
    ELSE IF method = "random_swap"
      THEN Ok(swap_random_pixels(img, P.swap_percentage, draws[1]))
    ELSE IF method = "block_swap"
      THEN swap_block_pixels(img, P.block_size, draws)
    ELSE Raised

\* load_image: raises when the path cannot be opened.
load_image(path) == IF path \in DOMAIN files THEN Ok(files[path]) ELSE Raised

\* save_image: the file system after np.clip(...).astype(np.uint8) is stored.
save_image(img, path) ==
    [p \in DOMAIN files \cup {path} |->
        IF p = path THEN MapSamples(img, LAMBDA v : Clip(v)) ELSE files[p]]

\* Mutant: the output is saved before the transform is known to succeed.
FilesAfter_save_first(loaded, r, output_path) ==
    IF loaded.ok THEN save_image(IF r.ok THEN r.img ELSE loaded.img, output_path)
    ELSE files

\* load, transform, save: what a call does to the files, given whether the
\* load and the transform succeeded.
FilesAfter(loaded, r, output_path) ==
    IF loaded.ok /\ r.ok THEN save_image(r.img, output_path) ELSE files

WritesAfter(loaded, r, output_path) ==
    IF loaded.ok /\ r.ok
    THEN [nwrites EXCEPT ![output_path] = @ + 1]
    ELSE nwrites

\* The model's bound on the calls, and the object a call is made on: an
\* ImageEncryptor of the running process.
CanCall(inst) ==
    /\ Len(calls) < MaxCalls
    /\ inst \in 1 .. Len(insts)
    /\ insts[inst].proc = procNo

\* The body shared by encrypt_image and decrypt_image: load, dispatch on
\* the method (drawing from the process's generator), save.
Perform(op, inst, image_path, output_path, method, P) ==
    LET loaded == load_image(image_path)
        lens   == IF loaded.ok THEN ShuffleLens(method, P, loaded.img) ELSE <<>>
    IN  \E draws \in DrawSeqs(lens) :
          /\ Replays(rng, lens, draws)
          /\ LET r == IF ~loaded.ok THEN Raised
                      ELSE IF op = "encrypt"
                        THEN EncryptTransform(loaded.img, method, P, draws)
                      ELSE DecryptTransform(loaded.img, method, P, draws)
             IN  /\ files' = FilesAfter(loaded, r, output_path)
                 /\ nwrites' = WritesAfter(loaded, r, output_path)
                 /\ calls' = Append(calls,
                       [op |-> op, inst |-> inst, method |-> method,
                        params |-> P, src |-> image_path, dst |-> output_path,
                        input |-> loaded.img, ok |-> loaded.ok /\ r.ok,
                        output |-> r.img, gen |-> rng, draws |-> draws])
          /\ rng' = StateAfter(rng, lens, Len(lens))
          /\ tape' = Recorded(rng, lens, draws)

encrypt_image(inst, image_path, output_path, method, P) ==
    /\ CanCall(inst)
    /\ Perform("encrypt", inst, image_path, output_path, method, P)
    /\ UNCHANGED <<procNo, insts>>

decrypt_image(inst, encrypted_image_path, output_path, method, P) ==
    /\ CanCall(inst)
    /\ Perform("decrypt", inst, encrypted_image_path, output_path, method, P)
    /\ UNCHANGED <<procNo, insts>>

\* ImageEncryptor(seed): a true seed reseeds the process's generator.
Construct(seed) ==
    /\ Len(insts) < MaxInsts
    /\ Len(calls) < MaxCalls
    /\ insts' = Append(insts, [proc |-> procNo, seed |-> seed])
    /\ rng' = IF Truthy(seed) THEN SeededRng(seed[1]) ELSE rng
    /\ UNCHANGED <<files, nwrites, procNo, tape, calls>>

\* The process ends and the next command starts a new one (cli.py is run
\* once per command): its objects are gone, the files stay.
NewProcess ==
    /\ procNo < MaxProcs
    /\ Len(calls) < MaxCalls
    /\ procNo' = procNo + 1
    /\ rng' = FreshRng(procNo + 1)
    /\ UNCHANGED <<files, nwrites, tape, insts, calls>>

(***************************************************************************)
(* The inputs of the model.                                                *)
(***************************************************************************)
\* The defaults of kwargs.get(...); swap_percentage in hundredths.
DefaultParams ==
    [key |-> 123, operation |-> "add", value |-> 50, shift_amount |-> 2,
     direction |-> "left", swap_percentage |-> 50, block_size |-> 2]

\* A 1 x 2 image of samples whose low bits are zero, up to the top bit.
BitImage ==
    [h |-> 1, w |-> 2,
     px |-> [p \in Positions(1, 2) |->
               IF p[2] = 0 THEN <<0, 4, 8>> ELSE <<16, 64, 128>>]]

UniformSamples == {0, 3, 100, 200}

ValueImages ==
    {Uniform(1, 1, v) : v \in UniformSamples}
        \cup {Labelled(2, 3), BitImage}

XorKeys == {123, 255}
ArithmeticValues == {0, 2, 200}
ShiftAmounts == {1, 3}

\* The <<method, keyword arguments>> of the calls that draw nothing from
\* the generator, the ones that must be rejected included.
ValueCalls ==
    {<<"xor", [DefaultParams EXCEPT !.key = k]>> : k \in XorKeys}
    \cup {<<"arithmetic", [DefaultParams EXCEPT !.operation = o, !.value = v]>> :
            o \in {"add", "subtract", "multiply", "divide"}, v \in ArithmeticValues}
    \cup {<<"arithmetic", [DefaultParams EXCEPT !.operation = "power"]>>}
    \cup {<<"bit_shift", [DefaultParams EXCEPT !.shift_amount = a, !.direction = d]>> :
            a \in ShiftAmounts, d \in {"left", "right"}}
    \cup {<<"bit_shift", [DefaultParams EXCEPT !.direction = "up"]>>}
    \cup {<<"adjacent_swap", DefaultParams>>,
          <<"channel_shift", DefaultParams>>,
          <<"rot13", DefaultParams>>,
          <<"block_swap", [DefaultParams EXCEPT !.block_size = 0]>>}

ShuffleImages == {Labelled(1, 3), Labelled(2, 1)}

Seeds == {None, <<0>>, <<42>>}
SwapPercentages == {50, 100}
BlockSizes == {1, 2, 3}

ShuffleCalls ==
    {<<"random_swap", [DefaultParams EXCEPT !.swap_percentage = q]>> :
        q \in SwapPercentages}
    \cup {<<"block_swap", [DefaultParams EXCEPT !.block_size = b]>> :
            b \in BlockSizes}

\* The inputs of SpecPixels: images of four and of three different pixels,
\* and the calls that move pixels, with arguments inside and outside the
\* documented ranges (swap_percentage in hundredths).
PixelImages == {Labelled(2, 2), Labelled(1, 3)}

PixelPercentages == {50, 100, 150}
PixelBlockSizes == {-1, 1, 2, 3}

PixelCalls ==
    {<<"random_swap", [DefaultParams EXCEPT !.swap_percentage = q]>> :
        q \in PixelPercentages}
    \cup {<<"block_swap", [DefaultParams EXCEPT !.block_size = b]>> :
            b \in PixelBlockSizes}
    \cup {<<"adjacent_swap", DefaultParams>>}

\* The inputs of SpecWide: values and shift amounts for which the exact
\* result of the operation does not fit in int32.
WideImages == {Uniform(1, 1, v) : v \in {1, 100, 200, 255}} \cup {BitImage}

WideValues == {16777216, MaxInt32}
WideShifts == {24}

WideCalls ==
    {<<"arithmetic", [DefaultParams EXCEPT !.operation = o, !.value = v]>> :
        o \in {"add", "multiply"}, v \in WideValues}
    \cup {<<"bit_shift", [DefaultParams EXCEPT !.shift_amount = a, !.direction = d]>> :
            a \in WideShifts, d \in {"left", "right"}}

(***************************************************************************)
(* Spec: one ImageEncryptor() in one process (as test_tool.py sets up),    *)
(* encrypting "in" to "enc" and decrypting "enc" to "dec" with the         *)
(* methods that draw nothing from the generator.                           *)
(***************************************************************************)
Init ==
    /\ \E img \in ValueImages : files = [p \in {"in"} |-> img]
    /\ nwrites = [p \in Paths |-> 0]
    /\ procNo = 1
    /\ rng = FreshRng(1)
    /\ tape = [st \in {} |-> <<>>]
    /\ insts = <<[proc |-> 1, seed |-> None]>>
    /\ calls = <<>>

Next ==
    \/ \E c \in ValueCalls : encrypt_image(1, "in", "enc", c[1], c[2])
    \/ \E c \in ValueCalls : decrypt_image(1, "enc", "dec", c[1], c[2])

Spec == Init /\ [][Next]_vars

(***************************************************************************)
(* SpecShuffle: the two methods that shuffle, with ImageEncryptor objects  *)
(* constructed at any time with any seed, in one process or in several.    *)
(***************************************************************************)
InitShuffle ==
    /\ \E img \in ShuffleImages : files = [p \in {"in"} |-> img]
    /\ nwrites = [p \in Paths |-> 0]
    /\ procNo = 1
    /\ rng = FreshRng(1)
    /\ tape = [st \in {} |-> <<>>]
    /\ insts = <<>>
    /\ calls = <<>>

NextShuffle ==
    \/ NewProcess
    \/ \E seed \in Seeds : Construct(seed)
    \/ \E inst \in 1 .. MaxInsts, c \in ShuffleCalls :
          encrypt_image(inst, "in", "enc", c[1], c[2])
    \/ \E inst \in 1 .. MaxInsts, c \in ShuffleCalls :
          decrypt_image(inst, "enc", "dec", c[1], c[2])

SpecShuffle == InitShuffle /\ [][NextShuffle]_vars

(***************************************************************************)
(* SpecPixels: one process that starts with ImageEncryptor(seed=42), as    *)
(* cli.py's demo does, and may construct a second one with the same seed.  *)
(* The first object encrypts, either decrypts, with the methods that      *)
(* move pixels, on images of three and four pixels.                        *)
(***************************************************************************)
InitPixels ==
    /\ \E img \in PixelImages : files = [p \in {"in"} |-> img]
    /\ nwrites = [p \in Paths |-> 0]
    /\ procNo = 1
    /\ rng = SeededRng(42)
    /\ tape = [st \in {} |-> <<>>]
    /\ insts = <<[proc |-> 1, seed |-> <<42>>]>>
    /\ calls = <<>>

NextPixels ==
    \/ Construct(<<42>>)
    \/ \E c \in PixelCalls : encrypt_image(1, "in", "enc", c[1], c[2])
    \/ \E inst \in 1 .. MaxInsts, c \in PixelCalls :
          decrypt_image(inst, "enc", "dec", c[1], c[2])

SpecPixels == InitPixels /\ [][NextPixels]_vars

(***************************************************************************)
(* SpecWide: as Spec, with large values and shift amounts.                 *)
(***************************************************************************)
InitWide ==
    /\ \E img \in WideImages : files = [p \in {"in"} |-> img]
    /\ nwrites = [p \in Paths |-> 0]
    /\ procNo = 1
    /\ rng = FreshRng(1)
    /\ tape = [st \in {} |-> <<>>]
    /\ insts = <<[proc |-> 1, seed |-> None]>>
    /\ calls = <<>>

NextWide ==
    \/ \E c \in WideCalls : encrypt_image(1, "in", "enc", c[1], c[2])
    \/ \E c \in WideCalls : decrypt_image(1, "enc", "dec", c[1], c[2])

SpecWide == InitWide /\ [][NextWide]_vars

(***************************************************************************)
(* Reading the log of calls.                                               *)
(***************************************************************************)
Samples(img) == {img.px[p][c] : p \in DOMAIN img.px, c \in 1 .. 3}

\* Call i read an image (its load did not fail).
Loaded(i) == calls[i].input # NoImage

\* Call j decrypts, with the method and keyword arguments of encryption i,
\* the file that encryption i wrote.
RoundTrip(i, j) ==
    /\ i \in 1 .. Len(calls) /\ j \in 1 .. Len(calls) /\ i < j
    /\ calls[i].op = "encrypt" /\ calls[j].op = "decrypt"
    /\ calls[i].ok
    /\ calls[j].src = calls[i].dst
    /\ calls[j].input = calls[i].output
    /\ calls[j].method = calls[i].method
    /\ calls[j].params = calls[i].params

RoundTrips(method) ==
    {ij \in (1 .. Len(calls)) \X (1 .. Len(calls)) :
        RoundTrip(ij[1], ij[2]) /\ calls[ij[1]].method = method}

\* Decryption j gave back exactly the image that encryption i read.
Restored(i, j) == calls[j].ok /\ calls[j].output = calls[i].input

\* Bit b of the sample v.
Bit(v, b) == (v \div Pow2(b)) % 2

(***************************************************************************)
(* C1: xor encryption replaces every sample s by s XOR key (bit by bit:    *)
(* a result bit is set exactly where the bits of s and key differ), for    *)
(* every key in 0..255, and xor decryption with the same key gives back    *)
(* the original image.                                                     *)
(***************************************************************************)
C1_XorRoundTrip ==
    /\ \A i \in 1 .. Len(calls) :
         (/\ calls[i].op = "encrypt" /\ calls[i].method = "xor"
          /\ Loaded(i) /\ calls[i].params.key \in 0 .. 255)
         => /\ calls[i].ok
            /\ DOMAIN calls[i].output.px = DOMAIN calls[i].input.px
            /\ \A p \in DOMAIN calls[i].input.px, c \in 1 .. 3 :
                 /\ calls[i].output.px[p][c] \in 0 .. 255
                 /\ \A b \in 0 .. 7 :
                      Bit(calls[i].output.px[p][c], b)
                        = IF Bit(calls[i].input.px[p][c], b) = Bit(calls[i].params.key, b)
                          THEN 0 ELSE 1
    /\ \A ij \in RoundTrips("xor") :
         calls[ij[1]].params.key \in 0 .. 255 => Restored(ij[1], ij[2])

\* The test's case: 100 everywhere, key 123, encrypted to 31, decrypted to 100.
C1_Witness ==
    \E ij \in RoundTrips("xor") :
        /\ calls[ij[1]].params.key = 123
        /\ calls[ij[1]].input = Uniform(1, 1, 100)
        /\ calls[ij[1]].output = Uniform(1, 1, 31)
        /\ calls[ij[2]].output = Uniform(1, 1, 100)

(***************************************************************************)
(* C4: arithmetic.  The value before np.clip of what the operation makes   *)
(* of a sample, and "no sample was clipped during encryption".             *)
(***************************************************************************)
ArithmeticOps == {"add", "subtract", "multiply", "divide"}

Unclipped(operation, v, value) ==
    IF operation = "add" THEN v + value
    ELSE IF operation = "subtract" THEN v - value
    ELSE IF operation = "multiply" THEN v * value
    ELSE FloorDiv(v, value)

NoClipping(i) ==
    \A v \in Samples(calls[i].input) :
        Unclipped(calls[i].params.operation, v, calls[i].params.value) \in 0 .. 255

\* C4 as claimed: for each of the four operations and any value that
\* encryption accepts, if no sample was clipped during encryption then
\* decryption with the same operation and value gives back the original.
C4_AsClaimed ==
    \A ij \in RoundTrips("arithmetic") :
        (/\ calls[ij[1]].params.operation \in ArithmeticOps
         /\ NoClipping(ij[1]))
        => Restored(ij[1], ij[2])

\* The operation undoes exactly: add, subtract, multiply by a value other
\* than 0, and divide when every sample is a multiple of the value.
ExactlyInvertible(i) ==
    LET operation == calls[i].params.operation
        value == calls[i].params.value
    IN  \/ operation \in {"add", "subtract"}
        \/ operation = "multiply" /\ value # 0
        \/ /\ operation = "divide"
           /\ \A v \in Samples(calls[i].input) : FloorDiv(v, value) * value = v

\* C4 as amended: for add, for subtract, for multiply by a value other
\* than 0 and for divide by a value that divides every sample, if no sample
\* was clipped during encryption then decryption with the same operation
\* and value gives back the original image.
C4_ArithmeticRoundTrip ==
    \A ij \in RoundTrips("arithmetic") :
        (/\ calls[ij[1]].params.operation \in ArithmeticOps
         /\ ExactlyInvertible(ij[1])
         /\ NoClipping(ij[1]))
        => Restored(ij[1], ij[2])

\* A division that is undone: 0, 4, 8, 16, 64, 128 divided by 2 and doubled.
C4_Witness ==
    \E ij \in RoundTrips("arithmetic") :
        /\ calls[ij[1]].params.operation = "divide"
        /\ calls[ij[1]].params.value = 2
        /\ ExactlyInvertible(ij[1]) /\ NoClipping(ij[1])
        /\ calls[ij[1]].output # calls[ij[1]].input
        /\ Restored(ij[1], ij[2])

(***************************************************************************)
(* C5: bit shift by s.  With direction left, if v << s <= 255 for every    *)
(* sample v, and with direction right, if the low s bits of every sample   *)
(* are zero, decryption with the same amount and direction gives back the  *)
(* original image.                                                         *)
(***************************************************************************)
C5_BitShiftRoundTrip ==
    \A ij \in RoundTrips("bit_shift") :
        LET s == calls[ij[1]].params.shift_amount
            direction == calls[ij[1]].params.direction
            X == Samples(calls[ij[1]].input)
        IN  (\/ direction = "left" /\ \A v \in X : v * Pow2(s) <= 255
             \/ direction = "right" /\ \A v \in X : v % Pow2(s) = 0)
            => Restored(ij[1], ij[2])

\* A right shift by at least one bit of an image that is not all zero.
C5_Witness ==
    \E ij \in RoundTrips("bit_shift") :
        /\ calls[ij[1]].params.direction = "right"
        /\ calls[ij[1]].params.shift_amount >= 1
        /\ \A v \in Samples(calls[ij[1]].input) :
               v % Pow2(calls[ij[1]].params.shift_amount) = 0
        /\ calls[ij[1]].output # calls[ij[1]].input
        /\ Restored(ij[1], ij[2])

(***************************************************************************)
(* C6: adjacent swap exchanges the pixels at (i, 2k) and (i, 2k+1) for     *)
(* every row i and every k with 2k+1 < W, leaves the last column as it is  *)
(* when W is odd, and applied to its own result gives back the original.   *)
(***************************************************************************)
C6_AdjacentSwap ==
    /\ \A n \in 1 .. Len(calls) :
         (calls[n].method = "adjacent_swap" /\ Loaded(n))
         => LET X == calls[n].input
                Y == calls[n].output
            IN  /\ calls[n].ok
                /\ DOMAIN Y.px = DOMAIN X.px
                /\ \A i \in 0 .. X.h - 1 :
                     /\ \A k \in 0 .. X.w :
                          2 * k + 1 < X.w
                            => /\ Y.px[<<i, 2 * k>>] = X.px[<<i, 2 * k + 1>>]
                               /\ Y.px[<<i, 2 * k + 1>>] = X.px[<<i, 2 * k>>]
                     /\ X.w % 2 = 1 => Y.px[<<i, X.w - 1>>] = X.px[<<i, X.w - 1>>]
    /\ \A ij \in RoundTrips("adjacent_swap") : Restored(ij[1], ij[2])

\* An image of odd width, changed by the swap and then restored.
C6_Witness ==
    \E ij \in RoundTrips("adjacent_swap") :
        /\ calls[ij[1]].input.w % 2 = 1
        /\ calls[ij[1]].input.h > 1
        /\ calls[ij[1]].output # calls[ij[1]].input
        /\ Restored(ij[1], ij[2])

(***************************************************************************)
(* C7: channel rotation maps every pixel (R,G,B) to (B,R,G) on encryption, *)
(* and decryption (two more rotations) gives back every pixel.             *)
(***************************************************************************)
C7_ChannelShift ==
    /\ \A n \in 1 .. Len(calls) :
         (calls[n].op = "encrypt" /\ calls[n].method = "channel_shift" /\ Loaded(n))
         => /\ calls[n].ok
            /\ DOMAIN calls[n].output.px = DOMAIN calls[n].input.px
            /\ \A p \in DOMAIN calls[n].input.px :
                 LET x == calls[n].input.px[p]
                 IN  calls[n].output.px[p] = <<x[3], x[1], x[2]>>
    /\ \A ij \in RoundTrips("channel_shift") : Restored(ij[1], ij[2])

\* An image whose channels differ, rotated and then restored.
C7_Witness ==
    \E ij \in RoundTrips("channel_shift") :
        /\ calls[ij[1]].output # calls[ij[1]].input
        /\ Restored(ij[1], ij[2])

(***************************************************************************)
(* C8: a call that succeeds writes its output file exactly once, with the  *)
(* array the transform returned; a call that raises (the load failed, the  *)
(* method is unknown, a parameter was rejected) writes nothing and leaves  *)
(* every file as it was.                                                   *)
(***************************************************************************)
C8_WritesOnlyOnSuccess ==
    [][Len(calls') = Len(calls) + 1 =>
         LET c == calls'[Len(calls')]
         IN  /\ c.ok =>
                  /\ nwrites' = [nwrites EXCEPT ![c.dst] = @ + 1]
                  /\ DOMAIN files' = DOMAIN files \cup {c.dst}
                  /\ files'[c.dst] = c.output
                  /\ \A p \in DOMAIN files \ {c.dst} : files'[p] = files[p]
             /\ ~c.ok => nwrites' = nwrites /\ files' = files]_vars

\* A call whose transform raised, made after a successful call to the same
\* output path: the path was written once and still holds the first result.
C8_Witness ==
    \E i, j \in 1 .. Len(calls) :
        /\ i < j
        /\ calls[i].ok /\ ~calls[j].ok /\ Loaded(j)
        /\ calls[j].dst = calls[i].dst
        /\ nwrites[calls[i].dst] = 1
        /\ files[calls[i].dst] = calls[i].output

(***************************************************************************)
(* The claims about the two methods that shuffle, under SpecShuffle.       *)
(***************************************************************************)
SeedOf(n) == insts[calls[n].inst].seed

Shuffles(n) == calls[n].method \in {"random_swap", "block_swap"}

\* C2: for random swap, an encryption followed by a decryption with the
\* same percentage (in [0,1]) and the same seed gives back the original
\* image, whether both calls are made on one ImageEncryptor or on two
\* constructed with the same seed.  Stated for the seeds the constructor
\* applies (an integer other than 0), the case most favourable to the claim.
C2_RandomSwapRoundTrip ==
    \A ij \in RoundTrips("random_swap") :
        (/\ calls[ij[1]].params.swap_percentage \in 0 .. 100
         /\ Truthy(SeedOf(ij[1]))
         /\ \/ calls[ij[1]].inst = calls[ij[2]].inst
            \/ SeedOf(ij[1]) = SeedOf(ij[2]))
        => Restored(ij[1], ij[2])

\* C3: for block swap, an encryption followed by a decryption with the
\* same block size (at least 1) and the same seed gives back the original
\* image: decryption applies the inverse of the permutation that
\* encryption applied.  Stated for the case most favourable to the claim,
\* the one cli.py produces when --seed is given: the seed is one the
\* constructor applies, and each of the two calls is the first use of the
\* generator after a constructor seeded it, so both shuffle identically.
C3_BlockSwapRoundTrip ==
    \A ij \in RoundTrips("block_swap") :
        (/\ calls[ij[1]].params.block_size >= 1
         /\ SeedOf(ij[1]) = SeedOf(ij[2]) /\ Truthy(SeedOf(ij[1]))
         /\ calls[ij[1]].gen = SeededRng(SeedOf(ij[1])[1])
         /\ calls[ij[2]].gen = SeededRng(SeedOf(ij[2])[1]))
        => Restored(ij[1], ij[2])

\* C9: two invocations of the same shuffling transform with the same seed,
\* the same parameters and the same image dimensions shuffle identically,
\* whatever calls were made before each.  Stated for the seeds the
\* constructor applies (an integer other than 0).
C9_SameSeedSamePermutation ==
    \A i, j \in 1 .. Len(calls) :
        (/\ i < j
         /\ Shuffles(i) /\ calls[i].ok /\ calls[j].ok
         /\ calls[j].method = calls[i].method
         /\ calls[j].params = calls[i].params
         /\ calls[j].input.h = calls[i].input.h
         /\ calls[j].input.w = calls[i].input.w
         /\ SeedOf(i) = SeedOf(j) /\ Truthy(SeedOf(i)))
        => calls[j].draws = calls[i].draws

\* Call n is the first call made on its ImageEncryptor.
FirstOnInstance(n) == \A m \in 1 .. n - 1 : calls[m].inst # calls[n].inst

\* C10: nothing is shared between ImageEncryptor objects: two objects
\* constructed with the same (true) seed give, each on its first call, the
\* same result for the same operation, input and parameters, whatever was
\* constructed or run on other objects in between.
C10_NoSharedState ==
    \A i, j \in 1 .. Len(calls) :
        (/\ i < j
         /\ calls[i].inst # calls[j].inst
         /\ SeedOf(i) = SeedOf(j) /\ Truthy(SeedOf(i))
         /\ FirstOnInstance(i) /\ FirstOnInstance(j)
         /\ Shuffles(i) /\ Loaded(i)
         /\ calls[j].op = calls[i].op
         /\ calls[j].method = calls[i].method
         /\ calls[j].params = calls[i].params
         /\ calls[j].input = calls[i].input)
        => calls[j].ok = calls[i].ok /\ calls[j].output = calls[i].output

(***************************************************************************)
(* The claims about how pixels are moved, under SpecPixels.                *)
(***************************************************************************)
\* The positions of the image that block b covers.
BlockPositions(b) ==
    {<<b.i + q[1], b.j + q[2]>> : q \in Positions(b.bh, b.bw)}

\* How often the pixel value v occurs in px at the positions S.
Count(px, S, v) == Cardinality({q \in S : px[q] = v})

\* px1 and px2 hold the same pixels, with the same multiplicities, at S.
SamePixels(px1, px2, S) ==
    \A q \in S : /\ Count(px1, S, px1[q]) = Count(px2, S, px1[q])
                 /\ Count(px1, S, px2[q]) = Count(px2, S, px2[q])

\* A block of b x b pixels, not cut at the border of the image.
Complete(b, block_size) == b.bh = block_size /\ b.bw = block_size

\* Call i ran block swap on an image it loaded, with a block size >= 1.
BlockSwapCall(i) ==
    /\ calls[i].method = "block_swap" /\ Loaded(i)
    /\ calls[i].params.block_size >= 1

BlocksOf(i) ==
    LET bs == Blocks(calls[i].input.h, calls[i].input.w, calls[i].params.block_size)
    IN  {bs[k] : k \in 1 .. Len(bs)}

\* C11 as claimed: block swap moves complete b x b blocks as units: every
\* complete block of the output equals a complete block of the input, the
\* pixels outside the complete blocks are unchanged, and so with a block
\* size larger than min(H, W) the output equals the input; no error.
C11_AsClaimed ==
    \A i \in 1 .. Len(calls) :
        BlockSwapCall(i) =>
            LET b == calls[i].params.block_size
                in == calls[i].input
                out == calls[i].output
                whole == {c \in BlocksOf(i) : Complete(c, b)}
            IN  /\ calls[i].ok
                /\ \A c \in whole : \E d \in whole :
                      \A q \in Positions(b, b) :
                          out.px[<<c.i + q[1], c.j + q[2]>>]
                              = in.px[<<d.i + q[1], d.j + q[2]>>]
                /\ \A q \in DOMAIN in.px :
                      (\A c \in whole : q \notin BlockPositions(c))
                          => out.px[q] = in.px[q]
                /\ (b > Min(in.h, in.w) => out = in)

\* C11 as amended: block swap permutes the pixels inside each block of the
\* grid, the blocks cut at the border of the image included: every block
\* of the output holds exactly the pixels of the same block of the input,
\* the image keeps its size, and no error is raised for any block size
\* of at least 1, larger than min(H, W) or not.
C11_BlockSwapWithinBlocks ==
    \A i \in 1 .. Len(calls) :
        BlockSwapCall(i) =>
            /\ calls[i].ok
            /\ calls[i].output.h = calls[i].input.h
            /\ calls[i].output.w = calls[i].input.w
            /\ DOMAIN calls[i].output.px = DOMAIN calls[i].input.px
            /\ \A c \in BlocksOf(i) :
                  SamePixels(calls[i].output.px, calls[i].input.px, BlockPositions(c))

\* A 2 x 2 image is shuffled with block size 3 (larger than min(H, W)), and
\* a 1 x 3 image with block size 2 has its 1 x 2 block exchanged.
C11_Witness ==
    \E i \in 1 .. Len(calls) :
        /\ BlockSwapCall(i) /\ calls[i].ok
        /\ calls[i].params.block_size = 3
        /\ calls[i].input = Labelled(2, 2)
        /\ calls[i].output # calls[i].input
        /\ calls[i].output.px[<<0, 0>>] = calls[i].input.px[<<1, 1>>]

(***************************************************************************)
(* C12: clipping loses information but raises nothing.  For arithmetic     *)
(* add with value v (v >= 0) every encrypted sample is min(255, s + v),    *)
(* and every sample decrypted from it is max(0, min(255, s + v) - v); a    *)
(* sample of 200 with v = 200 becomes 255 and comes back as 55.            *)
(***************************************************************************)
Max(a, b) == IF a >= b THEN a ELSE b

\* Call i encrypts an image it loaded with arithmetic add.
AddCall(i) ==
    /\ calls[i].op = "encrypt" /\ calls[i].method = "arithmetic"
    /\ calls[i].params.operation = "add" /\ Loaded(i)

RandomSwapCall(i) == calls[i].method = "random_swap" /\ Loaded(i)

\* The position list of call i as random.shuffle left it.
ShuffledOf(i) ==
    Shuffle(get_pixel_positions(calls[i].input.h, calls[i].input.w),
            calls[i].draws[1])

\* The pairs call i swapped, in the order of its loop.
SwapsOf(i) ==
    RandomPairs(ShuffledOf(i),
                NumSwaps(calls[i].input.h * calls[i].input.w,
                         calls[i].params.swap_percentage))

\* The positions at which the output of call i differs from its input.
Changed(i) ==
    {q \in DOMAIN calls[i].input.px : calls[i].output.px[q] # calls[i].input.px[q]}

\* C13 as claimed: random swap with percentage p (in [0,1]) on an H x W
\* image swaps exactly floor(H*W*p) pairs of pixels.
C13_AsClaimed ==
    \A i \in 1 .. Len(calls) :
        (RandomSwapCall(i) /\ calls[i].params.swap_percentage \in 0 .. 100)
        => Len(SwapsOf(i))
             = (calls[i].input.h * calls[i].input.w
                    * calls[i].params.swap_percentage) \div 100

\* C13 as amended: random swap with percentage p (in [0,1]) on an H x W
\* image swaps exactly int(H*W*p/2) pairs of pixels: the k-th swap
\* exchanges the pixels at entries 2k-1 and 2k of the shuffled position
\* list, the swaps are applied in that order, and (the pixels of the image
\* being pairwise different) exactly twice that many pixels move.
C13_RandomSwapCount ==
    \A i \in 1 .. Len(calls) :
        (RandomSwapCall(i) /\ calls[i].params.swap_percentage \in 0 .. 100)
        => LET n == (calls[i].input.h * calls[i].input.w
                        * calls[i].params.swap_percentage) \div 200
           IN  /\ calls[i].ok
               /\ Len(SwapsOf(i)) = n
               /\ \A k \in 1 .. n :
                     SwapsOf(i)[k] = <<ShuffledOf(i)[2 * k - 1], ShuffledOf(i)[2 * k]>>
               /\ calls[i].output.px = ApplySwaps(calls[i].input.px, SwapsOf(i))
               /\ Cardinality(Changed(i)) = 2 * n

\* Half of the four pixels of a 2 x 2 image: one swap, two pixels moved
\* (and all four with percentage 1.0, in another call of the same run).
C13_Witness ==
    \E i, j \in 1 .. Len(calls) :
        /\ RandomSwapCall(i) /\ calls[i].ok
        /\ calls[i].input = Labelled(2, 2)
        /\ calls[i].params.swap_percentage = 50
        /\ Len(SwapsOf(i)) = 1
        /\ Cardinality(Changed(i)) = 2
        /\ RandomSwapCall(j) /\ calls[j].ok
        /\ calls[j].params.swap_percentage = 100
        /\ Len(SwapsOf(j)) = 2
        /\ Cardinality(Changed(j)) = 4

(***************************************************************************)
(* C14: a method name that is not one of the seven makes encrypt_image and *)
(* decrypt_image raise, and the call writes no file.                       *)
(***************************************************************************)
SupportedMethods ==
    {"xor", "arithmetic", "bit_shift", "adjacent_swap", "random_swap",
     "block_swap", "channel_shift"}

C14_UnknownMethod ==
    [][Len(calls') = Len(calls) + 1 =>
         LET c == calls'[Len(calls')]
         IN  c.method \notin SupportedMethods =>
                 /\ ~c.ok
                 /\ files' = files
                 /\ nwrites' = nwrites]_vars

\* decrypt_image was given "rot13" for a file it could load: it raised and
\* there is no decrypted file.
C14_Witness ==
    \E i \in 1 .. Len(calls) :
        /\ calls[i].op = "decrypt" /\ Loaded(i)
        /\ calls[i].method \notin SupportedMethods
        /\ ~calls[i].ok
        /\ calls[i].dst \notin DOMAIN files
        /\ nwrites[calls[i].dst] = 0

(***************************************************************************)
(* C15: an arithmetic call with operation divide and value 0 is rejected   *)
(* with an error, by encrypt_image and by decrypt_image alike, and so      *)
(* writes nothing.                                                         *)
(***************************************************************************)
\* Call i was given arithmetic, divide, 0 and an image it could load.
DivideByZeroCall(i) ==
    /\ calls[i].method = "arithmetic" /\ Loaded(i)
    /\ calls[i].params.operation = "divide"
    /\ calls[i].params.value = 0

C15_DivideByZeroRejected ==
    \A i \in 1 .. Len(calls) :
        DivideByZeroCall(i) =>
            /\ ~calls[i].ok
            /\ nwrites[calls[i].dst] = Cardinality({m \in 1 .. Len(calls) :
                                           m # i /\ calls[m].ok /\ calls[m].dst = calls[i].dst})

(***************************************************************************)
(* C16: random swap with a percentage outside [0,1] and block swap with a  *)
(* block size that is negative or zero raise an error and write no output: *)
(* neither is accepted and turned into an output image.                    *)
(***************************************************************************)
\* Call i was given an image it could load and an argument outside the
\* documented range of its method.
OutOfRangeCall(i) ==
    /\ Loaded(i)
    /\ \/ /\ calls[i].method = "random_swap"
          /\ calls[i].params.swap_percentage \notin 0 .. 100
       \/ /\ calls[i].method = "block_swap"
          /\ calls[i].params.block_size <= 0

C16_OutOfRangeRejected ==
    \A i \in 1 .. Len(calls) :
        OutOfRangeCall(i) =>
            /\ ~calls[i].ok
            /\ calls[i].dst \in DOMAIN files => files[calls[i].dst] # calls[i].output

(***************************************************************************)
(* C17: every image a transform returns and every image that is written    *)
(* has the height and width of its input, three channels, and all samples  *)
(* in 0..255, for all parameter values: an intermediate value outside      *)
(* 0..255 is clipped to the nearer bound and never wraps.                  *)
(***************************************************************************)
\* s + v and s * m cut off at 255, for 0 <= s <= 255 and v, m >= 0,
\* computed without leaving the small numbers.
SaturatedSum(s, v) == IF v > 255 - s THEN 255 ELSE s + v

SaturatedProduct(s, m) ==
    IF s = 0 \/ m = 0 THEN 0
    ELSE IF m > 255 \div s THEN 255
    ELSE s * m

\* What the claim expects of the sample s in encryption i, where i adds or
\* multiplies by a value >= 0 or shifts left; s itself for other calls.
ClippedResult(i, s) ==
    LET P == calls[i].params
    IN  IF calls[i].method = "arithmetic" /\ P.operation = "add" /\ P.value >= 0
          THEN SaturatedSum(s, P.value)
        ELSE IF calls[i].method = "arithmetic" /\ P.operation = "multiply" /\ P.value >= 0
          THEN SaturatedProduct(s, P.value)
        ELSE IF calls[i].method = "bit_shift" /\ P.direction = "left"
          THEN SaturatedProduct(s, Pow2(P.shift_amount))
        ELSE s

ClipsSamples(i) ==
    /\ calls[i].op = "encrypt"
    /\ \/ /\ calls[i].method = "arithmetic"
          /\ calls[i].params.operation \in {"add", "multiply"}
          /\ calls[i].params.value >= 0
       \/ calls[i].method = "bit_shift" /\ calls[i].params.direction = "left"

C17_ClippedNeverWrapped ==
    \A i \in 1 .. Len(calls) :
        calls[i].ok =>
            /\ calls[i].output.h = calls[i].input.h
            /\ calls[i].output.w = calls[i].input.w
            /\ DOMAIN calls[i].output.px = DOMAIN calls[i].input.px
            /\ \A p \in DOMAIN calls[i].output.px :
                  /\ DOMAIN calls[i].output.px[p] = 1 .. 3
                  /\ \A c \in 1 .. 3 : calls[i].output.px[p][c] \in 0 .. 255
            /\ ClipsSamples(i) =>
                  \A p \in DOMAIN calls[i].input.px, c \in 1 .. 3 :
                      calls[i].output.px[p][c]
                          = ClippedResult(i, calls[i].input.px[p][c])

(***************************************************************************)
(* C18: for every integer seed, 0 included, two ImageEncryptor objects     *)
(* constructed with that seed give the same output when each runs random   *)
(* swap (or block swap) as its first operation on the same input with the  *)
(* same parameters, whatever the generator did before the construction.    *)
(* Stated for the way cli.py runs: each object is the only one of its      *)
(* process, and the call is the first call of that process.                *)
(***************************************************************************)
ProcOf(n) == insts[calls[n].inst].proc

\* Call n is the first call of its process, made on the only
\* ImageEncryptor the process has constructed.
FreshRun(n) ==
    /\ \A m \in 1 .. n - 1 : ProcOf(m) # ProcOf(n)
    /\ \A k \in 1 .. Len(insts) : insts[k].proc = ProcOf(n) => k = calls[n].inst

C18_EverySeedReproducible ==
    \A i, j \in 1 .. Len(calls) :
        (/\ i < j
         /\ Shuffles(i) /\ Loaded(i)
         /\ calls[j].op = calls[i].op
         /\ calls[j].method = calls[i].method
         /\ calls[j].params = calls[i].params
         /\ calls[j].input = calls[i].input
         /\ SeedOf(i) # None /\ SeedOf(j) = SeedOf(i)
         /\ FreshRun(i) /\ FreshRun(j))
        => calls[j].ok = calls[i].ok /\ calls[j].output = calls[i].output

(***************************************************************************)
(* C19: encrypt_image and decrypt_image accept the same arguments: given   *)
(* the same method and keyword arguments and an image that loads, one      *)
(* raises exactly when the other does (arithmetic with value 0, bit shift  *)
(* with a direction other than left and right included).                   *)
(***************************************************************************)
C19_SameArgumentsAccepted ==
    \A i, j \in 1 .. Len(calls) :
        (/\ calls[i].op = "encrypt" /\ calls[j].op = "decrypt"
         /\ Loaded(i) /\ Loaded(j)
         /\ calls[j].method = calls[i].method
         /\ calls[j].params = calls[i].params)
        => calls[i].ok = calls[j].ok

(***************************************************************************)
(* C20: the pairs swap_random_pixels swaps are pairwise disjoint (no       *)
(* position is in two pairs, no pair holds one position twice), so the     *)
(* order in which they are applied does not matter, and two calls that     *)
(* start from the same generator state with the same percentage and        *)
(* image size undo each other.                                             *)
(***************************************************************************)
Reverse(seq) == [k \in 1 .. Len(seq) |-> seq[Len(seq) + 1 - k]]

Disjoint(pairs) ==
    /\ \A k \in 1 .. Len(pairs) : pairs[k][1] # pairs[k][2]
    /\ \A k, l \in 1 .. Len(pairs) :
          k # l => {pairs[k][1], pairs[k][2]} \cap {pairs[l][1], pairs[l][2]} = {}

\* Random swap call j runs on the output of random swap call i, from the
\* generator state and with the percentage of call i.
Replayed(i, j) ==
    /\ i < j
    /\ RandomSwapCall(i) /\ RandomSwapCall(j)
    /\ calls[j].gen = calls[i].gen
    /\ calls[j].params.swap_percentage = calls[i].params.swap_percentage
    /\ calls[j].input = calls[i].output

C20_DisjointSwaps ==
    /\ \A i \in 1 .. Len(calls) :
          RandomSwapCall(i) =>
              /\ Disjoint(SwapsOf(i))
              /\ calls[i].output.px = ApplySwaps(calls[i].input.px, SwapsOf(i))
              /\ calls[i].output.px = ApplySwaps(calls[i].input.px, Reverse(SwapsOf(i)))
    /\ \A i, j \in 1 .. Len(calls) :
          Replayed(i, j) => calls[j].ok /\ calls[j].output = calls[i].input

\* All four pixels of a 2 x 2 image were moved by two swaps, and a second
\* call from the same generator state put them back.
C20_Witness ==
    \E i, j \in 1 .. Len(calls) :
        /\ Replayed(i, j)
        /\ calls[i].input = Labelled(2, 2)
        /\ Len(SwapsOf(i)) = 2
        /\ Cardinality(Changed(i)) = 4
        /\ calls[j].draws = calls[i].draws
        /\ calls[j].output = calls[i].input

(***************************************************************************)
(* C21: adjacent swap, random swap and block swap only move whole pixels:  *)
(* whatever the generator draws, the output holds exactly the pixels of    *)
(* the input, each as often as the input does (none lost, duplicated or    *)
(* zeroed), and block swap leaves every pixel inside the block, cut at     *)
(* the border or not, in which it started.                                 *)
(***************************************************************************)
PositionalMethods == {"adjacent_swap", "random_swap", "block_swap"}

C21_PixelsOnlyMove ==
    \A i \in 1 .. Len(calls) :
        (calls[i].method \in PositionalMethods /\ Loaded(i) /\ calls[i].ok) =>
            /\ DOMAIN calls[i].output.px = DOMAIN calls[i].input.px
            /\ SamePixels(calls[i].output.px, calls[i].input.px,
                          DOMAIN calls[i].input.px)
            /\ BlockSwapCall(i) =>
                  \A c \in BlocksOf(i) :
                      SamePixels(calls[i].output.px, calls[i].input.px,
                                 BlockPositions(c))

\* Block swap with block size 2 on the 1 x 3 image exchanged the two pixels
\* of the first block and left the cut block of one pixel alone, and
\* adjacent swap then moved pixels of the result.
C21_Witness ==
    \E i, j \in 1 .. Len(calls) :
        /\ BlockSwapCall(i) /\ calls[i].ok
        /\ calls[i].input = Labelled(1, 3)
        /\ calls[i].params.block_size = 2
        /\ Changed(i) = {<<0, 0>>, <<0, 1>>}
        /\ calls[j].method = "adjacent_swap" /\ calls[j].ok
        /\ calls[j].input = calls[i].output
        /\ Changed(j) = {<<0, 0>>, <<0, 1>>}

====
